---- MODULE Spec2Model ----
(***************************************************************************)
(* ImpactFlow: the session-gated router (App), and the grant browser       *)
(* (FundBridge) with its client-side filter and its save toggle.           *)
(*                                                                         *)
(* The specifications share the variables below:                           *)
(*   SpecApp / SpecAppLive  the routed App and the auth service it hears   *)
(*   SpecFilter             FundBridge: fetch + the filter controls        *)
(*   SpecSave               FundBridge: getUser, fetch + the save toggle   *)
(*   SpecSignup             SignupForm: the fields and handleSubmit        *)
(*   SpecDashboard          Dashboard: fetchDashboardData                  *)
(* The filter handlers read and write only grants/filters/filteredGrants   *)
(* and the save handlers only user/savedGrantIds/toast, so the two         *)
(* FundBridge specifications explore the two halves of the component       *)
(* over the same fetchData.                                                *)
(***************************************************************************)
EXTENDS Integers, Sequences, FiniteSets, TLC

\* ------------------------------------------------------------------ bounds
MaxEvents == 2      \* auth state-change events queued and not yet delivered
MaxRedirects == 3   \* <Navigate> hops followed in one render pass
MaxPending == 2     \* handleSaveGrant calls awaiting the backend
MaxRows == 3        \* rows the last-7-days proposals query returns

\* ------------------------------------------------------------- App: values
Null == "null"
Users == {"u1", "u2"}
Sessions == Users \cup {Null}

\* paths: the four <Route>s and one sidebar path that no <Route> matches
Paths == {"/", "/auth", "/dashboard", "/fundbridge", "/settings"}
ProtectedViews == {"DashboardLayout+Dashboard", "DashboardLayout+FundBridge"}

VARIABLES
    \* ---- App (src/unnamed/part_000)
    user,           \* App.user: Null or the session's user
    loading,        \* App.loading
    session,        \* the auth service's current session user (Null = none)
    gsState,        \* getSession promise: "called" | "read" | "done"
    gsResult,       \* the session the getSession promise resolves with
    events,         \* auth state-change events emitted and not yet delivered
    location,       \* the router's current path
    view,           \* what App currently renders
    redirects,      \* the <Navigate>s performed by the last render pass
    logoutPending,  \* handleLogout awaits signOut, navigate('/auth') to come
    \* ---- FundBridge (src/src/components/DashboardLayout.tsx:262-654)
    grants,
    filteredGrants,
    savedGrantIds,
    fbLoading,
    fbUser,
    filters,
    toast,          \* the toast raised by the last handler ("none" if none)
    getUserPc,      \* getUser effect: "pending" | "done"
    fetches,        \* fetchData calls in flight: the user each one closed over
    pending,        \* handleSaveGrant calls in flight
    savedTable,     \* backend table saved_grants: set of <<user_id, grant_id>>
    lastFilterOp,   \* history: the last filter handler run: "none", "set", "clear"
    era,            \* history: the calls in flight since pending was empty
    lastToggle,     \* history: the last toggle that succeeded, if it ran alone
    \* ---- SignupForm (src/src/components/auth/SignupForm.tsx)
    formData,       \* SignupForm.formData
    suLoading,      \* SignupForm.loading
    suError,        \* SignupForm.error ("" if none)
    suPc,           \* handleSubmit: "idle" | "signUp" | "insert" | "finished"
    suAuth,         \* what signUp returned to the running handleSubmit
    suPath,         \* history: the path the last handleSubmit took
    suLog,          \* history: the calls the last handleSubmit made, in order
    authAccounts,   \* auth service: the e-mails that have an account
    usersTable,     \* backend table users: the profile rows
    \* ---- Dashboard (src/src/components/Dashboard.tsx)
    stats,          \* Dashboard.stats
    proposals,      \* Dashboard.proposals
    chartData,      \* Dashboard.chartData
    dashPc,         \* fetchDashboardData: "getUser" | "stats" | "latest" |
                    \* "chart" | "done" | "nouser" | "failed"
    dashUser,       \* authUser of the running fetchDashboardData
    tzOffset,       \* the browser's offset from UTC, in hours
    dashCounts,     \* history: the counts the three count queries returned
    chartRows,      \* history: the created_at values the chart query returned
    dashQueries     \* history: the table queries issued

appVars == <<user, loading, session, gsState, gsResult, events, location,
             view, redirects, logoutPending>>
fbVars == <<grants, filteredGrants, savedGrantIds, fbLoading, fbUser, filters,
            toast, getUserPc, fetches, pending, savedTable, lastFilterOp, era,
            lastToggle>>
vars == <<user, loading, session, gsState, gsResult, events, location,
          view, redirects, logoutPending,
          grants, filteredGrants, savedGrantIds, fbLoading, fbUser, filters,
          toast, getUserPc, fetches, pending, savedTable, lastFilterOp, era,
          lastToggle,
          formData, suLoading, suError, suPc, suAuth, suPath, suLog,
          authAccounts, usersTable,
          stats, proposals, chartData, dashPc, dashUser, tzOffset, dashCounts,
          chartRows, dashQueries>>
suVars == <<formData, suLoading, suError, suPc, suAuth, suPath, suLog,
            authAccounts, usersTable>>
dashVars == <<stats, proposals, chartData, dashPc, dashUser, tzOffset,
              dashCounts, chartRows, dashQueries>>

\* ------------------------------------------------------------ App: routing

\* mutant of RouteElement: /fundbridge rendered without the session guard
RouteElementUnguarded(u, path) ==
    CASE path = "/auth" ->
            IF u # Null THEN [kind |-> "navigate", to |-> "/dashboard"]
                        ELSE [kind |-> "render", to |-> "AuthPage"]
      [] path = "/dashboard" ->
            IF u # Null THEN [kind |-> "render", to |-> "DashboardLayout+Dashboard"]
                        ELSE [kind |-> "navigate", to |-> "/auth"]
      [] path = "/fundbridge" ->
            [kind |-> "render", to |-> "DashboardLayout+FundBridge"]
      [] path = "/" ->
            [kind |-> "navigate", to |-> IF u # Null THEN "/dashboard" ELSE "/auth"]
      [] OTHER -> [kind |-> "render", to |-> "NoMatch"]

\* mutant of RouteElement: /auth always shows AuthPage
RouteElementAuthAlways(u, path) ==
    CASE path = "/auth" ->
            [kind |-> "render", to |-> "AuthPage"]
      [] path = "/dashboard" ->
            IF u # Null THEN [kind |-> "render", to |-> "DashboardLayout+Dashboard"]
                        ELSE [kind |-> "navigate", to |-> "/auth"]
      [] path = "/fundbridge" ->
            IF u # Null THEN [kind |-> "render", to |-> "DashboardLayout+FundBridge"]
                        ELSE [kind |-> "navigate", to |-> "/auth"]
      [] path = "/" ->
            [kind |-> "navigate", to |-> IF u # Null THEN "/dashboard" ELSE "/auth"]
      [] OTHER -> [kind |-> "render", to |-> "NoMatch"]

\* the element of the <Route> that matches path, for App.user = u
RouteElement(u, path) ==
    CASE path = "/auth" ->
            IF u # Null THEN [kind |-> "navigate", to |-> "/dashboard"]
                        ELSE [kind |-> "render", to |-> "AuthPage"]
      [] path = "/dashboard" ->
            IF u # Null THEN [kind |-> "render", to |-> "DashboardLayout+Dashboard"]
                        ELSE [kind |-> "navigate", to |-> "/auth"]
      [] path = "/fundbridge" ->
            IF u # Null THEN [kind |-> "render", to |-> "DashboardLayout+FundBridge"]
                        ELSE [kind |-> "navigate", to |-> "/auth"]
      [] path = "/" ->
            [kind |-> "navigate", to |-> IF u # Null THEN "/dashboard" ELSE "/auth"]
      [] OTHER -> [kind |-> "render", to |-> "NoMatch"]

\* <Routes>: evaluate the route at path, following <Navigate replace> hops
RECURSIVE Routes(_, _, _, _)
Routes(u, path, hops, fuel) ==
    LET el == RouteElement(u, path) IN
    IF el.kind = "navigate" /\ fuel > 0
    THEN Routes(u, el.to, Append(hops, [from |-> path, to |-> el.to]), fuel - 1)
    ELSE [location |-> path,
          view |-> IF el.kind = "render" THEN el.to ELSE "Navigating",
          redirects |-> hops]

\* mutant of AppRender: the loading early return is missing
AppRenderNoLoading(ld, u, path) ==
    Routes(u, path, << >>, MaxRedirects)

\* App's render: the loading indicator, else the router
AppRender(ld, u, path) ==
    IF ld
    THEN [location |-> path, view |-> "LoadingIndicator", redirects |-> << >>]
    ELSE Routes(u, path, << >>, MaxRedirects)

\* re-render App with state (ld, u) at path
Rerender(ld, u, path) ==
    LET r == AppRender(ld, u, path) IN
    /\ location' = r.location
    /\ view' = r.view
    /\ redirects' = r.redirects

\* ------------------------------------------------------------ App: actions

\* the auth service answers getSession: it reads its current session
GetSessionRead ==
    /\ gsState = "called"
    /\ gsState' = "read"
    /\ gsResult' = session
    /\ UNCHANGED <<user, loading, session, events, location, view, redirects,
                   logoutPending>>
    /\ UNCHANGED <<fbVars, suVars, dashVars>>

\* mutant of GetSessionThen: setLoading(false) is missing
GetSessionThenKeepLoading ==
    /\ gsState = "read"
    /\ gsState' = "done"
    /\ user' = gsResult
    /\ loading' = loading
    /\ Rerender(loading', user', location)
    /\ UNCHANGED <<session, gsResult, events, logoutPending>>
    /\ UNCHANGED <<fbVars, suVars, dashVars>>

\* getSession().then(...): setUser(session?.user ?? null); setLoading(false)
GetSessionThen ==
    /\ gsState = "read"
    /\ gsState' = "done"
    /\ user' = gsResult
    /\ loading' = FALSE
    /\ Rerender(loading', user', location)
    /\ UNCHANGED <<session, gsResult, events, logoutPending>>
    /\ UNCHANGED <<fbVars, suVars, dashVars>>

\* the auth service's session changes (sign-in, sign-out, token refresh,
\* another tab) and it emits an auth state-change event carrying it
AuthEvent(s) ==
    /\ Len(events) < MaxEvents
    /\ session' = s
    /\ events' = Append(events, s)
    /\ UNCHANGED <<user, loading, gsState, gsResult, location, view, redirects,
                   logoutPending>>
    /\ UNCHANGED <<fbVars, suVars, dashVars>>

\* onAuthStateChange callback: setUser(session?.user ?? null); setLoading(false)
OnAuthStateChange ==
    /\ events # << >>
    /\ user' = Head(events)
    /\ loading' = FALSE
    /\ events' = Tail(events)
    /\ Rerender(loading', user', location)
    /\ UNCHANGED <<session, gsState, gsResult, logoutPending>>
    /\ UNCHANGED <<fbVars, suVars, dashVars>>

\* in-app navigation (sidebar button, history): the router evaluates path p
Visit(p) ==
    /\ ~loading
    /\ Rerender(loading, user, p)
    /\ UNCHANGED <<user, loading, session, gsState, gsResult, events,
                   logoutPending>>
    /\ UNCHANGED <<fbVars, suVars, dashVars>>

\* DashboardLayout.fetchUserData finds no auth user or no profile row:
\* navigate('/auth')
FetchUserDataFail ==
    /\ view \in ProtectedViews
    /\ Rerender(loading, user, "/auth")
    /\ UNCHANGED <<user, loading, session, gsState, gsResult, events,
                   logoutPending>>
    /\ UNCHANGED <<fbVars, suVars, dashVars>>

\* DashboardLayout.handleLogout, first half: supabase.auth.signOut()
HandleLogout(ok) ==
    /\ view \in ProtectedViews
    /\ ~logoutPending
    /\ Len(events) < MaxEvents
    /\ logoutPending' = TRUE
    /\ IF ok THEN /\ session' = Null
                  /\ events' = Append(events, Null)
             ELSE UNCHANGED <<session, events>>
    /\ UNCHANGED <<user, loading, gsState, gsResult, location, view, redirects>>
    /\ UNCHANGED <<fbVars, suVars, dashVars>>

\* DashboardLayout.handleLogout, second half: navigate('/auth')
HandleLogoutNavigate ==
    /\ logoutPending
    /\ logoutPending' = FALSE
    /\ Rerender(loading, user, "/auth")
    /\ UNCHANGED <<user, loading, session, gsState, gsResult, events>>
    /\ UNCHANGED <<fbVars, suVars, dashVars>>

\* ------------------------------------------------------ FundBridge: values

\* a JS boolean | null is one of "true", "false", Null
\* text is a sequence of characters, so that toLowerCase and includes are
\* computed and not assumed
LowerChar(c) ==
    CASE c = "A" -> "a" [] c = "D" -> "d" [] c = "E" -> "e" [] c = "G" -> "g"
      [] c = "H" -> "h" [] c = "L" -> "l" [] c = "N" -> "n" [] c = "O" -> "o"
      [] c = "U" -> "u" [] OTHER -> c

\* String.prototype.toLowerCase
toLowerCase(s) == [i \in 1..Len(s) |-> LowerChar(s[i])]

\* String.prototype.includes
includes(s, t) ==
    \E i \in 0..(Len(s) - Len(t)) : SubSeq(s, i + 1, i + Len(t)) = t

G1 == [id |-> "g1", grant_name |-> <<"E", "d", "u">>,
       description |-> <<"k", "i", "d">>, eligibility |-> <<"N", "G", "O">>,
       sector |-> "Education", region |-> "Africa", org_size |-> "Small",
       youth_led |-> "true"]
G2 == [id |-> "g2", grant_name |-> <<"A", "i", "d">>,
       description |-> <<"E", "D", "U">>, eligibility |-> <<"a", "l", "l">>,
       sector |-> "Health", region |-> "Africa", org_size |-> "Large",
       youth_led |-> "false"]
G3 == [id |-> "g3", grant_name |-> <<"H", "2", "O">>,
       description |-> <<"w", "e", "l", "l">>, eligibility |-> <<"n", "g", "o">>,
       sector |-> "Health", region |-> "Asia", org_size |-> "Small",
       youth_led |-> "true"]

\* what the grants query may return (ordered by the backend)
GrantTables == {<<G1, G2, G3>>, <<G3, G1>>, << >>}
GrantIds == {"g1", "g2", "g3"}

\* values the filter controls can produce ("" is the 'All ...' item)
SectorChoices == {"", "Education", "Health"}
RegionChoices == {"", "Africa", "Asia"}
OrgSizeChoices == {"", "Small", "Large"}
SearchInputs == {<< >>, <<"e", "d">>, <<"N", "g">>, <<"i", "d">>,
                 <<"L", "L">>, <<"z">>}

\* the saved_grants rows the backend may hold when FundBridge mounts
InitialSavedTables == {{}, {<<"u1", "g2">>, <<"u2", "g3">>}}

InitialFilters ==
    [sector |-> "", region |-> "", org_size |-> "", youth_led |-> Null,
     search |-> << >>]

NoToast == [title |-> "", description |-> ""]
AuthRequiredToast ==
    [title |-> "Authentication Required",
     description |-> "Please log in to save grants"]
GrantRemovedToast ==
    [title |-> "Grant Removed",
     description |-> "Grant removed from your saved list"]
GrantSavedToast ==
    [title |-> "Grant Saved", description |-> "Grant added to your saved list"]
SaveFailedToast == [title |-> "Error", description |-> "Failed to save grant"]
LoadFailedToast ==
    [title |-> "Error", description |-> "Failed to load funding opportunities"]

\* history records
\*   era.before    savedGrantIds at the click that started the era
\*   era.overlap   a second call was started while one was in flight
\*   lastToggle    grant and era.before of the last successful toggle, if
\*                 it ran alone
NoEra == [before |-> {}, overlap |-> FALSE]
NoToggle == [grant |-> "none", before |-> {}]

\* ------------------------------------------------------ FundBridge: filter

\* mutant of matchesSearch: the search text is not lower-cased
matchesSearchCaseSensitive(grant, f) ==
    \/ f.search = << >>
    \/ includes(toLowerCase(grant.grant_name), f.search)
    \/ includes(toLowerCase(grant.description), f.search)
    \/ includes(toLowerCase(grant.eligibility), f.search)

matchesSearch(grant, f) ==
    \/ f.search = << >>
    \/ includes(toLowerCase(grant.grant_name), toLowerCase(f.search))
    \/ includes(toLowerCase(grant.description), toLowerCase(f.search))
    \/ includes(toLowerCase(grant.eligibility), toLowerCase(f.search))

\* the predicate of grants.filter(...) in the 'Apply filters' effect
matchesFilters(grant, f) ==
    LET matchesSector == f.sector = "" \/ grant.sector = f.sector
        matchesRegion == f.region = "" \/ grant.region = f.region
        matchesOrgSize == f.org_size = "" \/ grant.org_size = f.org_size
        matchesYouthLed == f.youth_led = Null \/ grant.youth_led = f.youth_led
    IN  matchesSector /\ matchesRegion /\ matchesOrgSize /\ matchesYouthLed
        /\ matchesSearch(grant, f)

\* Array.prototype.filter over grants, as the effect computes it
RECURSIVE ApplyFilters(_, _)
ApplyFilters(gs, f) ==
    IF gs = << >> THEN << >>
    ELSE IF matchesFilters(Head(gs), f)
         THEN <<Head(gs)>> \o ApplyFilters(Tail(gs), f)
         ELSE ApplyFilters(Tail(gs), f)

\* the filter change re-renders and the 'Apply filters' effect runs
SetFilters(f, op) ==
    /\ ~fbLoading
    /\ filters' = f
    /\ filteredGrants' = ApplyFilters(grants, f)
    /\ lastFilterOp' = op
    /\ UNCHANGED <<grants, savedGrantIds, fbLoading, fbUser, toast, getUserPc,
                   fetches, pending, savedTable, era, lastToggle>>
    /\ UNCHANGED <<appVars, suVars, dashVars>>

\* search <Input onChange>
SetSearch(text) == SetFilters([filters EXCEPT !.search = text], "set")

\* sector <Select onValueChange>
SetSector(value) == SetFilters([filters EXCEPT !.sector = value], "set")

\* region <Select onValueChange>
SetRegion(value) == SetFilters([filters EXCEPT !.region = value], "set")

\* organization size <Select onValueChange>
SetOrgSize(value) == SetFilters([filters EXCEPT !.org_size = value], "set")

\* youth-led <Switch onCheckedChange>: checked ? true : null
SetYouthLed(checked) ==
    SetFilters([filters EXCEPT !.youth_led = IF checked THEN "true" ELSE Null],
               "set")

\* mutant of clearFilters: the search text is kept
clearFiltersKeepSearch ==
    SetFilters([InitialFilters EXCEPT !.search = filters.search], "clear")

\* Clear Filters button
clearFilters == SetFilters(InitialFilters, "clear")

\* ------------------------------------------------- FundBridge: fetch, user

RemoveAt(q, i) == SubSeq(q, 1, i - 1) \o SubSeq(q, i + 1, Len(q))

\* getUser effect resolves with the session's user, or with none when the
\* session is gone: setUser(user); a changed user gives a new
\* fetchData, whose effect calls it (setLoading(true))
GetUserDone(u) ==
    /\ getUserPc = "pending"
    /\ getUserPc' = "done"
    /\ fbUser' = u
    /\ IF u # fbUser
       THEN /\ fetches' = Append(fetches, [user |-> u, stage |-> "grants",
                                            data |-> << >>])
            /\ fbLoading' = TRUE
       ELSE UNCHANGED <<fetches, fbLoading>>
    /\ UNCHANGED <<grants, filteredGrants, savedGrantIds, filters, toast,
                   pending, savedTable, lastFilterOp, era, lastToggle>>
    /\ UNCHANGED <<appVars, suVars, dashVars>>

\* fetchData's try block completes: the three setters, setLoading(false),
\* and the 'Apply filters' effect that the new grants trigger
FetchCommit(i, data, saved) ==
    /\ savedGrantIds' = saved
    /\ grants' = data
    /\ filteredGrants' = ApplyFilters(data, filters)
    /\ fbLoading' = FALSE
    /\ fetches' = RemoveAt(fetches, i)
    /\ UNCHANGED <<fbUser, filters, toast, getUserPc, pending, savedTable,
                   lastFilterOp, era, lastToggle>>
    /\ UNCHANGED <<appVars, suVars, dashVars>>

\* fetchData's catch and finally: the error toast, setLoading(false)
FetchFail(i) ==
    /\ toast' = LoadFailedToast
    /\ fbLoading' = FALSE
    /\ fetches' = RemoveAt(fetches, i)
    /\ UNCHANGED <<grants, filteredGrants, savedGrantIds, fbUser, filters,
                   getUserPc, pending, savedTable, lastFilterOp, era, lastToggle>>
    /\ UNCHANGED <<appVars, suVars, dashVars>>

\* the grants query of fetch i answers
FetchGrantsDone(i, ok, data) ==
    /\ i \in 1..Len(fetches)
    /\ fetches[i].stage = "grants"
    /\ IF ~ok THEN FetchFail(i)
       ELSE IF fetches[i].user # Null
       THEN /\ fetches' = [fetches EXCEPT ![i] = [@ EXCEPT !.stage = "saved",
                                                           !.data = data]]
            /\ UNCHANGED <<grants, filteredGrants, savedGrantIds, fbLoading,
                           fbUser, filters, toast, getUserPc, pending,
                           savedTable, lastFilterOp, era, lastToggle>>
            /\ UNCHANGED <<appVars, suVars, dashVars>>
       ELSE FetchCommit(i, data, {})

\* the saved_grants query of fetch i (user_id = user.id) answers
FetchSavedDone(i, ok) ==
    /\ i \in 1..Len(fetches)
    /\ fetches[i].stage = "saved"
    /\ IF ~ok THEN FetchFail(i)
       ELSE FetchCommit(i, fetches[i].data,
                        {g \in GrantIds : <<fetches[i].user, g>> \in savedTable})

\* ------------------------------------------------------- FundBridge: save

\* history bookkeeping of a click that issues a call
EraAtClick ==
    era' = IF pending = << >>
           THEN [before |-> savedGrantIds, overlap |-> FALSE]
           ELSE [before |-> {}, overlap |-> TRUE]

\* history bookkeeping of a call's completion
EraAtCompletion == era' = IF Len(pending) = 1 THEN NoEra ELSE era

\* mutant of handleSaveGrant: the user check is missing
handleSaveGrantNoUserCheck(grantId) ==
    /\ ~fbLoading
    /\ \E k \in 1..Len(filteredGrants) : filteredGrants[k].id = grantId
    /\ Len(pending) < MaxPending
    /\ pending' = Append(pending,
                         [grant |-> grantId,
                          op |-> IF grantId \in savedGrantIds
                                 THEN "delete" ELSE "insert",
                          user |-> fbUser])
    /\ EraAtClick
    /\ UNCHANGED <<grants, filteredGrants, savedGrantIds, fbLoading, fbUser,
                   filters, toast, getUserPc, fetches, savedTable,
                   lastFilterOp, lastToggle>>
    /\ UNCHANGED <<appVars, suVars, dashVars>>

\* Save button: handleSaveGrant(grant.id) up to its await; the button is
\* on screen when FundBridge is not loading and the grant is listed
handleSaveGrant(grantId) ==
    /\ ~fbLoading
    /\ \E k \in 1..Len(filteredGrants) : filteredGrants[k].id = grantId
    /\ IF fbUser = Null
       THEN /\ toast' = AuthRequiredToast
            /\ UNCHANGED <<pending, era>>
       ELSE /\ Len(pending) < MaxPending
            /\ pending' = Append(pending,
                                 [grant |-> grantId,
                                  op |-> IF grantId \in savedGrantIds
                                         THEN "delete" ELSE "insert",
                                  user |-> fbUser])
            /\ EraAtClick
            /\ UNCHANGED toast
    /\ UNCHANGED <<grants, filteredGrants, savedGrantIds, fbLoading, fbUser,
                   filters, getUserPc, fetches, savedTable,
                   lastFilterOp, lastToggle>>
    /\ UNCHANGED <<appVars, suVars, dashVars>>

\* mutant of SaveSucceeded: the insert branch replaces the set by {grantId}
SaveSucceededReplace(i) ==
    /\ i \in 1..Len(pending)
    /\ IF pending[i].op = "delete"
       THEN /\ savedTable' = savedTable \ {<<pending[i].user, pending[i].grant>>}
            /\ savedGrantIds' = savedGrantIds \ {pending[i].grant}
            /\ toast' = GrantRemovedToast
       ELSE /\ savedTable' = savedTable \cup {<<pending[i].user, pending[i].grant>>}
            /\ savedGrantIds' = {pending[i].grant}
            /\ toast' = GrantSavedToast
    /\ pending' = RemoveAt(pending, i)
    /\ lastToggle' = IF era.overlap THEN NoToggle
                     ELSE [grant |-> pending[i].grant, before |-> era.before]
    /\ EraAtCompletion
    /\ UNCHANGED <<grants, filteredGrants, fbLoading, fbUser, filters,
                   getUserPc, fetches, lastFilterOp>>
    /\ UNCHANGED <<appVars, suVars, dashVars>>

\* the delete / insert of call i returns no error: the functional
\* setSavedGrantIds update and the success toast
SaveSucceeded(i) ==
    /\ i \in 1..Len(pending)
    /\ IF pending[i].op = "delete"
       THEN /\ savedTable' = savedTable \ {<<pending[i].user, pending[i].grant>>}
            /\ savedGrantIds' = savedGrantIds \ {pending[i].grant}
            /\ toast' = GrantRemovedToast
       ELSE /\ savedTable' = savedTable \cup {<<pending[i].user, pending[i].grant>>}
            /\ savedGrantIds' = savedGrantIds \cup {pending[i].grant}
            /\ toast' = GrantSavedToast
    /\ pending' = RemoveAt(pending, i)
    /\ lastToggle' = IF era.overlap THEN NoToggle
                     ELSE [grant |-> pending[i].grant, before |-> era.before]
    /\ EraAtCompletion
    /\ UNCHANGED <<grants, filteredGrants, fbLoading, fbUser, filters,
                   getUserPc, fetches, lastFilterOp>>
    /\ UNCHANGED <<appVars, suVars, dashVars>>

\* mutant of SaveFailed: the set is updated although the call failed
SaveFailedOptimistic(i) ==
    /\ i \in 1..Len(pending)
    /\ savedGrantIds' = IF pending[i].op = "delete"
                        THEN savedGrantIds \ {pending[i].grant}
                        ELSE savedGrantIds \cup {pending[i].grant}
    /\ toast' = SaveFailedToast
    /\ pending' = RemoveAt(pending, i)
    /\ EraAtCompletion
    /\ UNCHANGED <<grants, filteredGrants, fbLoading, fbUser, filters,
                   getUserPc, fetches, savedTable,
                   lastFilterOp, lastToggle>>
    /\ UNCHANGED <<appVars, suVars, dashVars>>

\* the delete / insert of call i returns an error: throw, catch, error toast
SaveFailed(i) ==
    /\ i \in 1..Len(pending)
    /\ toast' = SaveFailedToast
    /\ pending' = RemoveAt(pending, i)
    /\ EraAtCompletion
    /\ UNCHANGED <<grants, filteredGrants, savedGrantIds, fbLoading, fbUser,
                   filters, getUserPc, fetches, savedTable,
                   lastFilterOp, lastToggle>>
    /\ UNCHANGED <<appVars, suVars, dashVars>>

\* ------------------------------------------------------------- SignupForm

Emails == {"a@ngo.org", "b@ngo.org"}
FieldValues ==
    [email |-> Emails, password |-> {"secret1"}, fullName |-> {"Ada"},
     organizationName |-> {"Aid"}, role |-> {"admin", "staff", "donor"}]
FormFields == DOMAIN FieldValues

EmptyForm ==
    [email |-> "", password |-> "", fullName |-> "", organizationName |-> "",
     role |-> ""]

\* messages of the auth service's AuthError
AuthErrorMessages ==
    {"User already registered", "Password should be at least 6 characters"}
ProfileErrorMessage == "Failed to create user profile"
UnexpectedErrorMessage == "An unexpected error occurred"

\* the id the auth service gives the account of an e-mail
UserIdOf(email) == <<"id", email>>

NoAuthResult == [form |-> EmptyForm, error |-> "", hasUser |-> FALSE]

\* the row handleSubmit inserts into users
ProfileRow(form) ==
    [id |-> UserIdOf(form.email), email |-> form.email,
     full_name |-> form.fullName,
     organization_name |-> form.organizationName, role |-> form.role]

\* updateFormData(field, value), from an input's onChange
updateFormData(field, value) ==
    /\ formData' = [formData EXCEPT ![field] = value]
    /\ UNCHANGED <<suLoading, suError, suPc, suAuth, suPath, suLog,
                   authAccounts, usersTable>>
    /\ UNCHANGED <<appVars, fbVars, dashVars>>

\* the form is submitted (required fields filled, the button enabled):
\* handleSubmit up to the await of signUp
handleSubmit ==
    /\ ~suLoading
    /\ \A f \in FormFields : formData[f] # ""
    /\ suLoading' = TRUE
    /\ suError' = ""
    /\ suPc' = "signUp"
    /\ suAuth' = [form |-> formData, error |-> "", hasUser |-> FALSE]
    /\ suPath' = "running"
    /\ suLog' = <<"signUp">>
    /\ UNCHANGED <<formData, authAccounts, usersTable>>
    /\ UNCHANGED <<appVars, fbVars, dashVars>>

\* handleSubmit's catch and finally
SubmitThrown ==
    /\ suError' = UnexpectedErrorMessage
    /\ suLoading' = FALSE
    /\ suPc' = "finished"
    /\ suPath' = "thrown"
    /\ UNCHANGED <<formData, suAuth, suLog, authAccounts, usersTable>>
    /\ UNCHANGED <<appVars, fbVars, dashVars>>

\* supabase.auth.signUp settles and handleSubmit runs on to its next await
\* or to its end
SignUpDone(outcome, msg) ==
    /\ suPc = "signUp"
    /\ CASE outcome = "thrown" -> SubmitThrown
         [] outcome = "error" ->
              \* if (authError) { setError(authError.message); return }
              /\ msg = "User already registered" =>
                    suAuth.form.email \in authAccounts
              /\ suAuth' = [suAuth EXCEPT !.error = msg]
              /\ suError' = msg
              /\ suLoading' = FALSE
              /\ suPc' = "finished"
              /\ suPath' = "authError"
              /\ UNCHANGED <<formData, suLog, authAccounts, usersTable>>
              /\ UNCHANGED <<appVars, fbVars, dashVars>>
         [] outcome = "user" ->
              \* if (authData.user) { ... insert ... }
              /\ suAuth.form.email \notin authAccounts
              /\ suAuth' = [suAuth EXCEPT !.hasUser = TRUE]
              /\ authAccounts' = authAccounts \cup {suAuth.form.email}
              /\ suPc' = "insert"
              /\ suLog' = Append(suLog, "insert")
              /\ UNCHANGED <<formData, suLoading, suError, suPath, usersTable>>
              /\ UNCHANGED <<appVars, fbVars, dashVars>>
         [] outcome = "noUser" ->
              \* no error and no user: the if is skipped, finally runs
              /\ suLoading' = FALSE
              /\ suPc' = "finished"
              /\ suPath' = "noUser"
              /\ UNCHANGED <<formData, suError, suAuth, suLog, authAccounts,
                             usersTable>>
              /\ UNCHANGED <<appVars, fbVars, dashVars>>

\* mutant of ProfileInsertDone: the return after the profile error is missing
ProfileInsertDoneNoReturn(outcome) ==
    /\ suPc = "insert"
    /\ CASE outcome = "thrown" -> SubmitThrown
         [] outcome = "error" ->
              /\ suError' = ProfileErrorMessage
              /\ suLoading' = FALSE
              /\ suPc' = "finished"
              /\ suPath' = "profileError"
              /\ suLog' = Append(suLog, "onSuccess")
              /\ UNCHANGED <<formData, suAuth, authAccounts, usersTable>>
              /\ UNCHANGED <<appVars, fbVars, dashVars>>
         [] outcome = "ok" ->
              /\ \A r \in usersTable : r.id # ProfileRow(suAuth.form).id
              /\ usersTable' = usersTable \cup {ProfileRow(suAuth.form)}
              /\ suLog' = Append(suLog, "onSuccess")
              /\ suLoading' = FALSE
              /\ suPc' = "finished"
              /\ suPath' = "success"
              /\ UNCHANGED <<formData, suError, suAuth, authAccounts>>
              /\ UNCHANGED <<appVars, fbVars, dashVars>>

\* the insert into users settles and handleSubmit runs to its end
ProfileInsertDone(outcome) ==
    /\ suPc = "insert"
    /\ CASE outcome = "thrown" -> SubmitThrown
         [] outcome = "error" ->
              \* if (profileError) { setError(...); return }
              /\ suError' = ProfileErrorMessage
              /\ suLoading' = FALSE
              /\ suPc' = "finished"
              /\ suPath' = "profileError"
              /\ UNCHANGED <<formData, suAuth, suLog, authAccounts, usersTable>>
              /\ UNCHANGED <<appVars, fbVars, dashVars>>
         [] outcome = "ok" ->
              \* onSuccess() is App.handleAuthSuccess, which does nothing
              /\ \A r \in usersTable : r.id # ProfileRow(suAuth.form).id
              /\ usersTable' = usersTable \cup {ProfileRow(suAuth.form)}
              /\ suLog' = Append(suLog, "onSuccess")
              /\ suLoading' = FALSE
              /\ suPc' = "finished"
              /\ suPath' = "success"
              /\ UNCHANGED <<formData, suError, suAuth, authAccounts>>
              /\ UNCHANGED <<appVars, fbVars, dashVars>>

\* -------------------------------------------------------------- Dashboard

HoursPerDay == 24

\* created_at values, in hours: two either side of a UTC midnight, one later
Stamps == {22, 23, 24, 49}
TzOffsets == {-1, 0, 1}

\* a count of a count query: << >> when the response carries none
Counts == {<< >>, <<0>>, <<2>>}

\* what the latest-proposals query may return
LatestResults == {<< >>, <<"p2", "p1">>}

RECURSIVE SeqsUpTo(_, _)
SeqsUpTo(S, n) ==
    IF n = 0 THEN {<< >>}
    ELSE LET shorter == SeqsUpTo(S, n - 1) IN
         shorter \cup {Append(q, x) : q \in shorter, x \in S}

ChartResults == SeqsUpTo(Stamps, MaxRows)

InitialStats ==
    [proposalsSubmitted |-> 0, grantsFound |-> 0, donorReportsSent |-> 0]

\* res.count || 0
CountOrZero(c) == IF c = << >> THEN 0 ELSE c[1]

\* new Date(created_at).toLocaleDateString(): the calendar day of the
\* instant in the browser's time zone (days are numbered, a date string
\* being different for different days)
toLocaleDateString(t, off) == (t + off) \div HoursPerDay

\* mutant of CountProposal: the day's count is set to 1, not incremented
CountProposalNoIncrement(dailyCounts, date) ==
    IF \E i \in 1..Len(dailyCounts) : dailyCounts[i].date = date
    THEN [i \in 1..Len(dailyCounts) |->
            IF dailyCounts[i].date = date
            THEN [dailyCounts[i] EXCEPT !.proposals = 1]
            ELSE dailyCounts[i]]
    ELSE Append(dailyCounts, [date |-> date, proposals |-> 1])

\* dailyCounts[date] = (dailyCounts[date] || 0) + 1, the object's keys
\* kept in insertion order
CountProposal(dailyCounts, date) ==
    IF \E i \in 1..Len(dailyCounts) : dailyCounts[i].date = date
    THEN [i \in 1..Len(dailyCounts) |->
            IF dailyCounts[i].date = date
            THEN [dailyCounts[i] EXCEPT !.proposals = @ + 1]
            ELSE dailyCounts[i]]
    ELSE Append(dailyCounts, [date |-> date, proposals |-> 1])

\* the forEach over the returned rows, then Object.entries(...).map(...)
RECURSIVE DailyCounts(_, _, _)
DailyCounts(rows, off, dailyCounts) ==
    IF rows = << >> THEN dailyCounts
    ELSE DailyCounts(Tail(rows), off,
                     CountProposal(dailyCounts,
                                   toLocaleDateString(Head(rows), off)))

\* fetchDashboardData's catch: console.error, the state set so far stays
DashThrown ==
    /\ dashPc' = "failed"
    /\ UNCHANGED <<stats, proposals, chartData, dashUser, tzOffset,
                   dashCounts, chartRows, dashQueries>>
    /\ UNCHANGED <<appVars, fbVars, suVars>>

\* supabase.auth.getUser() settles: no user returns, a user issues the
\* three count queries
DashGetUserDone(u, thrown) ==
    /\ dashPc = "getUser"
    /\ IF thrown THEN DashThrown
       ELSE /\ dashUser' = u
            /\ dashPc' = IF u = Null THEN "nouser" ELSE "stats"
            /\ dashQueries' = IF u = Null THEN dashQueries ELSE dashQueries + 3
            /\ UNCHANGED <<stats, proposals, chartData, tzOffset, dashCounts,
                           chartRows>>
            /\ UNCHANGED <<appVars, fbVars, suVars>>

\* Promise.all of the count queries settles: setStats, then the
\* latest-proposals query is issued
DashStatsDone(c1, c2, c3, thrown) ==
    /\ dashPc = "stats"
    /\ IF thrown THEN DashThrown
       ELSE /\ dashCounts' = <<c1, c2, c3>>
            /\ stats' = [proposalsSubmitted |-> CountOrZero(c1),
                         grantsFound |-> CountOrZero(c2),
                         donorReportsSent |-> CountOrZero(c3)]
            /\ dashPc' = "latest"
            /\ dashQueries' = dashQueries + 1
            /\ UNCHANGED <<proposals, chartData, dashUser, tzOffset, chartRows>>
            /\ UNCHANGED <<appVars, fbVars, suVars>>

\* the latest-proposals query settles: setProposals(proposalsData || []),
\* then the last-7-days query is issued
DashLatestDone(hasData, data, thrown) ==
    /\ dashPc = "latest"
    /\ IF thrown THEN DashThrown
       ELSE /\ proposals' = IF hasData THEN data ELSE << >>
            /\ dashPc' = "chart"
            /\ dashQueries' = dashQueries + 1
            /\ UNCHANGED <<stats, chartData, dashUser, tzOffset, dashCounts,
                           chartRows>>
            /\ UNCHANGED <<appVars, fbVars, suVars>>

\* the last-7-days query settles: the daily counts, setChartData
DashChartDone(hasData, rows, thrown) ==
    /\ dashPc = "chart"
    /\ IF thrown THEN DashThrown
       ELSE /\ chartRows' = IF hasData THEN rows ELSE << >>
            /\ chartData' = IF hasData THEN DailyCounts(rows, tzOffset, << >>)
                                       ELSE << >>
            /\ dashPc' = "done"
            /\ UNCHANGED <<stats, proposals, dashUser, tzOffset, dashCounts,
                           dashQueries>>
            /\ UNCHANGED <<appVars, fbVars, suVars>>

\* --------------------------------------------------------- specifications

AppInit ==
    /\ user = Null
    /\ loading = TRUE
    /\ session \in Sessions
    /\ gsState = "called"
    /\ gsResult = Null
    /\ events = << >>
    /\ location \in Paths
    /\ view = AppRender(TRUE, Null, location).view
    /\ redirects = AppRender(TRUE, Null, location).redirects
    /\ logoutPending = FALSE

\* FundBridge just mounted: the getUser effect and the first fetchData
\* (user still null) are in flight
FundBridgeInit ==
    /\ grants = << >>
    /\ filteredGrants = << >>
    /\ savedGrantIds = {}
    /\ fbLoading = TRUE
    /\ fbUser = Null
    /\ filters = InitialFilters
    /\ toast = NoToast
    /\ getUserPc = "pending"
    /\ fetches = <<[user |-> Null, stage |-> "grants", data |-> << >>]>>
    /\ pending = << >>
    /\ savedTable \in InitialSavedTables
    /\ lastFilterOp = "none"
    /\ era = NoEra
    /\ lastToggle = NoToggle

\* App as it is while FundBridge is on screen
AppAtFundBridge ==
    /\ user = "u1"
    /\ loading = FALSE
    /\ session = "u1"
    /\ gsState = "done"
    /\ gsResult = "u1"
    /\ events = << >>
    /\ location = "/fundbridge"
    /\ view = AppRender(FALSE, "u1", "/fundbridge").view
    /\ redirects = AppRender(FALSE, "u1", "/fundbridge").redirects
    /\ logoutPending = FALSE

\* SignupForm just mounted
SignupInit ==
    /\ formData = EmptyForm
    /\ suLoading = FALSE
    /\ suError = ""
    /\ suPc = "idle"
    /\ suAuth = NoAuthResult
    /\ suPath = "none"
    /\ suLog = << >>
    /\ authAccounts \in {{}, {"b@ngo.org"}}
    /\ usersTable = {}

\* Dashboard just mounted: its effect has called fetchDashboardData
DashboardInit ==
    /\ stats = InitialStats
    /\ proposals = << >>
    /\ chartData = << >>
    /\ dashPc = "getUser"
    /\ dashUser = Null
    /\ tzOffset \in TzOffsets
    /\ dashCounts = << >>
    /\ chartRows = << >>
    /\ dashQueries = 0

\* App showing AuthPage at /auth
AppAtAuth ==
    /\ user = Null
    /\ loading = FALSE
    /\ session = Null
    /\ gsState = "done"
    /\ gsResult = Null
    /\ events = << >>
    /\ location = "/auth"
    /\ view = AppRender(FALSE, Null, "/auth").view
    /\ redirects = AppRender(FALSE, Null, "/auth").redirects
    /\ logoutPending = FALSE

\* App showing Dashboard at /dashboard
AppAtDashboard ==
    /\ user = "u1"
    /\ loading = FALSE
    /\ session = "u1"
    /\ gsState = "done"
    /\ gsResult = "u1"
    /\ events = << >>
    /\ location = "/dashboard"
    /\ view = AppRender(FALSE, "u1", "/dashboard").view
    /\ redirects = AppRender(FALSE, "u1", "/dashboard").redirects
    /\ logoutPending = FALSE

\* the other components, not on screen
OthersIdle ==
    /\ FundBridgeInit /\ savedTable = {}
    /\ SignupInit /\ authAccounts = {}
    /\ DashboardInit /\ tzOffset = 0

\* App starts: nothing of the pages has run yet
InitApp == AppInit /\ OthersIdle

\* FundBridge mounts under a signed-in App
InitFundBridge ==
    /\ AppAtFundBridge /\ FundBridgeInit
    /\ SignupInit /\ authAccounts = {}
    /\ DashboardInit /\ tzOffset = 0

\* SignupForm mounts in AuthPage
InitSignup ==
    /\ AppAtAuth /\ SignupInit
    /\ FundBridgeInit /\ savedTable = {}
    /\ DashboardInit /\ tzOffset = 0

\* Dashboard mounts under a signed-in App
InitDashboard ==
    /\ AppAtDashboard /\ DashboardInit
    /\ FundBridgeInit /\ savedTable = {}
    /\ SignupInit /\ authAccounts = {}

AppNext ==
    \/ GetSessionRead
    \/ GetSessionThen
    \/ \E s \in Sessions : AuthEvent(s)
    \/ OnAuthStateChange
    \/ \E p \in Paths : Visit(p)
    \/ FetchUserDataFail
    \/ \E ok \in BOOLEAN : HandleLogout(ok)
    \/ HandleLogoutNavigate

FetchNext ==
    \/ \E u \in {session, Null} : GetUserDone(u)
    \/ \E i \in 1..2, ok \in BOOLEAN, data \in GrantTables :
          FetchGrantsDone(i, ok, data)
    \/ \E i \in 1..2, ok \in BOOLEAN : FetchSavedDone(i, ok)

FilterNext ==
    \/ FetchNext
    \/ \E text \in SearchInputs : SetSearch(text)
    \/ \E value \in SectorChoices : SetSector(value)
    \/ \E value \in RegionChoices : SetRegion(value)
    \/ \E value \in OrgSizeChoices : SetOrgSize(value)
    \/ \E checked \in BOOLEAN : SetYouthLed(checked)
    \/ clearFilters

SaveNext ==
    \/ FetchNext
    \/ \E g \in GrantIds : handleSaveGrant(g)
    \/ \E i \in 1..MaxPending : SaveSucceeded(i)
    \/ \E i \in 1..MaxPending : SaveFailed(i)

SignupNext ==
    \/ \E f \in FormFields : \E v \in FieldValues[f] : updateFormData(f, v)
    \/ handleSubmit
    \/ \E outcome \in {"thrown", "error", "user", "noUser"},
          msg \in AuthErrorMessages : SignUpDone(outcome, msg)
    \/ \E outcome \in {"thrown", "error", "ok"} : ProfileInsertDone(outcome)

DashboardNext ==
    \/ \E u \in {session, Null}, thrown \in BOOLEAN : DashGetUserDone(u, thrown)
    \/ \E c1, c2, c3 \in Counts, thrown \in BOOLEAN :
          DashStatsDone(c1, c2, c3, thrown)
    \/ \E hasData \in BOOLEAN, data \in LatestResults, thrown \in BOOLEAN :
          DashLatestDone(hasData, data, thrown)
    \/ \E hasData \in BOOLEAN, rows \in ChartResults, thrown \in BOOLEAN :
          DashChartDone(hasData, rows, thrown)

\* SignupForm: the fields and handleSubmit
SpecSignup == InitSignup /\ [][SignupNext]_vars

\* Dashboard: fetchDashboardData
SpecDashboard == InitDashboard /\ [][DashboardNext]_vars

\* the routed App and the auth service
SpecApp == InitApp /\ [][AppNext]_vars

\* the same, with the getSession promise eventually settling and its
\* callback eventually running
SpecAppLive ==
    InitApp /\ [][AppNext]_vars
    /\ WF_vars(GetSessionRead) /\ WF_vars(GetSessionThen)

\* FundBridge: fetchData and the filter controls
SpecFilter == InitFundBridge /\ [][FilterNext]_vars

\* FundBridge: getUser, fetchData and the save toggle
SpecSave == InitFundBridge /\ [][SaveNext]_vars

\* ------------------------------------------------------------------ claims

\* C1: route gating. Whenever loading is false and user is null, the router
\* is not at /dashboard or /fundbridge and no protected page is rendered;
\* and visiting /dashboard or /fundbridge in such a state redirects to /auth.
RouteGating ==
    /\ [](~loading /\ user = Null =>
            /\ location \notin {"/dashboard", "/fundbridge"}
            /\ view \notin ProtectedViews)
    /\ [][\A p \in {"/dashboard", "/fundbridge"} :
            (Visit(p) /\ user = Null) =>
                /\ redirects' = <<[from |-> p, to |-> "/auth"]>>
                /\ location' = "/auth"
                /\ view' \notin ProtectedViews]_vars

RouteGatingWitness ==
    /\ ~loading /\ user = Null /\ session = Null /\ gsState = "done"
    /\ redirects = <<[from |-> "/fundbridge", to |-> "/auth"]>>
    /\ location = "/auth"

\* C2: AuthPage is rendered only when loading is false and user is null;
\* with a user, going to /auth redirects to /dashboard; the root path
\* redirects to /dashboard with a user and to /auth without one.
AuthPageOnlySignedOut ==
    /\ [](view = "AuthPage" => ~loading /\ user = Null)
    /\ [][((Visit("/auth") \/ FetchUserDataFail \/ HandleLogoutNavigate)
            /\ ~loading /\ user # Null) =>
                /\ redirects' = <<[from |-> "/auth", to |-> "/dashboard"]>>
                /\ location' = "/dashboard"]_vars
    /\ [][Visit("/") =>
            /\ redirects' # << >>
            /\ Head(redirects') =
                 [from |-> "/",
                  to |-> IF user # Null THEN "/dashboard" ELSE "/auth"]
            /\ location' = IF user # Null THEN "/dashboard" ELSE "/auth"]_vars

AuthPageOnlySignedOutWitness ==
    /\ ~loading /\ user # Null
    /\ redirects = <<[from |-> "/auth", to |-> "/dashboard"]>>
    /\ view = "DashboardLayout+Dashboard"

\* C3: while loading is true only the loading indicator is rendered and
\* no redirect has been issued.
LoadingShowsOnlyIndicator ==
    loading => (view = "LoadingIndicator" /\ redirects = << >>)

LoadingShowsOnlyIndicatorWitness ==
    /\ loading /\ gsState = "read" /\ user = Null
    /\ location = "/dashboard" /\ view = "LoadingIndicator"

\* C4: once the getSession result and every emitted auth state-change event
\* have been handled, App.user is the user of the auth service's session.
UserTracksSession ==
    (gsState = "done" /\ events = << >>) => user = session

\* C5: App eventually leaves the loading screen; the getSession callback and
\* the delivery of an auth state-change event each leave loading false; once
\* false, loading is never true again.
LeavesLoading ==
    /\ <>(~loading)
    /\ [][((gsState = "read" /\ gsState' = "done")
            \/ Len(events') < Len(events)) => ~loading']_vars
    /\ [][~loading => ~loading']_vars

LeavesLoadingWitness ==
    ~loading /\ gsState = "called" /\ events = << >>

\* C6: filteredGrants is the sub-sequence of grants, in order, of the grants
\* that satisfy the five filter conditions together.
CasePairs ==
    {<<"A", "a">>, <<"D", "d">>, <<"E", "e">>, <<"G", "g">>, <<"H", "h">>,
     <<"L", "l">>, <<"N", "n">>, <<"O", "o">>, <<"U", "u">>}

SameLetter(c, d) == c = d \/ <<c, d>> \in CasePairs \/ <<d, c>> \in CasePairs

CaseInsensitiveSubstring(t, s) ==
    \E off \in 0..(Len(s) - Len(t)) :
        \A k \in 1..Len(t) : SameLetter(t[k], s[off + k])

Satisfies(g, f) ==
    /\ g.sector = f.sector \/ f.sector = ""
    /\ g.region = f.region \/ f.region = ""
    /\ g.org_size = f.org_size \/ f.org_size = ""
    /\ g.youth_led = f.youth_led \/ f.youth_led = Null
    /\ \/ f.search = << >>
       \/ CaseInsensitiveSubstring(f.search, g.grant_name)
       \/ CaseInsensitiveSubstring(f.search, g.description)
       \/ CaseInsensitiveSubstring(f.search, g.eligibility)

FilteredIsMatchingSubsequence ==
    LET idx == {i \in 1..Len(grants) : Satisfies(grants[i], filters)} IN
    /\ Len(filteredGrants) = Cardinality(idx)
    /\ \E m \in [1..Len(filteredGrants) -> idx] :
          /\ \A j \in 1..Len(filteredGrants) : filteredGrants[j] = grants[m[j]]
          /\ \A j, k \in 1..Len(filteredGrants) : j < k => m[j] < m[k]

FilteredIsMatchingSubsequenceWitness ==
    /\ lastFilterOp = "set"
    /\ filters.search = <<"N", "g">> /\ filters.youth_led = "true"
    /\ Len(grants) = 3
    /\ filteredGrants = <<G1, G3>>

\* C7: clearFilters resets the five filter fields to their initial values,
\* after which filteredGrants is the full grants list; clearing cleared
\* filters changes nothing.
ClearFiltersResets ==
    [][clearFilters =>
          /\ filters' = InitialFilters
          /\ filteredGrants' = grants'
          /\ filters = InitialFilters =>
                UNCHANGED <<grants, filteredGrants, savedGrantIds, fbLoading,
                            fbUser, filters, toast, getUserPc, fetches,
                            pending, savedTable>>]_vars

ClearFiltersResetsWitness ==
    /\ lastFilterOp = "clear"
    /\ filters = InitialFilters
    /\ Len(grants) = 3
    /\ filteredGrants = grants

\* C8: with FundBridge.user null, handleSaveGrant issues no insert or delete,
\* leaves savedGrantIds unchanged and raises the 'Authentication Required'
\* toast.
SaveRequiresUser ==
    [][\A g \in GrantIds :
          (handleSaveGrant(g) /\ fbUser = Null) =>
              /\ pending' = pending
              /\ savedTable' = savedTable
              /\ savedGrantIds' = savedGrantIds
              /\ toast' = AuthRequiredToast]_vars

SaveRequiresUserWitness ==
    /\ fbUser = Null /\ toast = AuthRequiredToast
    /\ pending = << >> /\ Len(grants) = 3

\* C9: a successful handleSaveGrant(g) deletes and removes g when g
\* was in savedGrantIds, inserts and adds it when it was not, leaves every
\* other member alone, and two successive successful toggles of the same
\* grant, each completed before the next starts, restore the original set.
SaveToggleRoundTrip ==
    /\ [][\A g \in GrantIds :
            (handleSaveGrant(g) /\ fbUser # Null) =>
                /\ pending'[Len(pending')].grant = g
                /\ pending'[Len(pending')].user = fbUser
                /\ (pending'[Len(pending')].op = "delete") = (g \in savedGrantIds)
                /\ (pending'[Len(pending')].op = "insert") = (g \notin savedGrantIds)
                /\ savedGrantIds' = savedGrantIds]_vars
    /\ [][\A i \in 1..Len(pending) :
            SaveSucceeded(i) =>
                /\ pending[i].op = "delete" =>
                      /\ <<pending[i].user, pending[i].grant>> \notin savedTable'
                      /\ pending[i].grant \notin savedGrantIds'
                /\ pending[i].op = "insert" =>
                      /\ <<pending[i].user, pending[i].grant>> \in savedTable'
                      /\ pending[i].grant \in savedGrantIds'
                /\ \A h \in GrantIds \ {pending[i].grant} :
                      (h \in savedGrantIds') = (h \in savedGrantIds)
                /\ (~era.overlap /\ lastToggle.grant = pending[i].grant) =>
                      savedGrantIds' = lastToggle.before]_vars

\* C10: when the insert or delete returns an error, savedGrantIds is left
\* unchanged and the 'Failed to save grant' toast is raised, not a success
\* toast.
SaveErrorKeepsSet ==
    [][\A i \in 1..Len(pending) :
          SaveFailed(i) =>
              /\ savedGrantIds' = savedGrantIds
              /\ toast' = SaveFailedToast
              /\ toast' \notin {GrantSavedToast, GrantRemovedToast}]_vars

SaveErrorKeepsSetWitness ==
    /\ toast = SaveFailedToast /\ pending = << >>
    /\ fbUser # Null /\ savedGrantIds = {"g2"}

\* C13: fetchData runs with user null on mount and again when getUser
\* resolves; once both calls have completed successfully (no toggle having
\* run), savedGrantIds is the current user's saved grant ids, as the fetch
\* started last returned them.
LastFetchWins ==
    (/\ getUserPc = "done" /\ fbUser # Null
     /\ fetches = << >> /\ pending = << >> /\ toast = NoToast) =>
        savedGrantIds = {g \in GrantIds : <<fbUser, g>> \in savedTable}

\* C11: handleSubmit calls signUp first and inserts the profile row only if
\* signUp returned no error and a user; onSuccess is called only after both
\* succeeded; on every path loading is false when handleSubmit has finished,
\* and on each failure path (auth error, profile error, thrown exception)
\* the error message is not empty.
SignupOrdering ==
    /\ suLog # << >> => suLog[1] = "signUp"
    /\ (\E i \in 1..Len(suLog) : suLog[i] = "insert") =>
          /\ suLog[2] = "insert"
          /\ suAuth.error = "" /\ suAuth.hasUser
          /\ suAuth.form.email \in authAccounts
    /\ (\E i \in 1..Len(suLog) : suLog[i] = "onSuccess") =>
          /\ suLog = <<"signUp", "insert", "onSuccess">>
          /\ suAuth.error = "" /\ suAuth.hasUser
          /\ \E r \in usersTable :
                /\ r.id = UserIdOf(suAuth.form.email)
                /\ r.email = suAuth.form.email
                /\ r.role = suAuth.form.role
          /\ suPc = "finished" /\ suPath = "success"
    /\ suPc = "finished" =>
          /\ ~suLoading
          /\ suPath \in {"success", "authError", "profileError", "thrown",
                         "noUser"}
          /\ suPath \in {"authError", "profileError", "thrown"} =>
                suError # ""
          /\ suPath = "success" => suLog[Len(suLog)] = "onSuccess"

SignupOrderingWitness ==
    /\ suPc = "finished" /\ suPath = "profileError"
    /\ suLog = <<"signUp", "insert">>
    /\ suError = ProfileErrorMessage
    /\ ~suLoading /\ usersTable # {}

\* C12: after a successful fetchDashboardData, chartData has one entry per
\* distinct local calendar date of the rows the last-7-days query returned,
\* every count is at least 1 and the counts sum to the number of rows; the
\* three stats are the backend counts, a missing count being 0; with no
\* auth user, stats, proposals and chartData keep their initial values and
\* no table query is issued.
LocalDateOf(t) ==
    CHOOSE d \in -1..3 :
        HoursPerDay * d <= t + tzOffset /\ t + tzOffset < HoursPerDay * (d + 1)

RECURSIVE SumOfCounts(_)
SumOfCounts(entries) ==
    IF entries = << >> THEN 0
    ELSE Head(entries).proposals + SumOfCounts(Tail(entries))

ShownCount(c) == IF Len(c) = 1 THEN c[1] ELSE 0

DashboardAggregation ==
    /\ dashPc = "done" =>
          LET dates == {LocalDateOf(chartRows[i]) : i \in 1..Len(chartRows)} IN
          /\ Len(chartData) = Cardinality(dates)
          /\ {chartData[i].date : i \in 1..Len(chartData)} = dates
          /\ \A i \in 1..Len(chartData) : chartData[i].proposals >= 1
          /\ SumOfCounts(chartData) = Len(chartRows)
          /\ stats.proposalsSubmitted = ShownCount(dashCounts[1])
          /\ stats.grantsFound = ShownCount(dashCounts[2])
          /\ stats.donorReportsSent = ShownCount(dashCounts[3])
    /\ dashPc = "nouser" =>
          /\ stats = InitialStats
          /\ proposals = << >>
          /\ chartData = << >>
          /\ dashQueries = 0

DashboardAggregationWitness ==
    /\ dashPc = "done" /\ tzOffset = 1
    /\ chartRows = <<23, 49, 24>>
    /\ Len(chartData) = 2
    /\ dashCounts = <<<<2>>, << >>, <<0>>>>
    /\ stats.grantsFound = 0

====
